---- MODULE Spec2Model ----
(***************************************************************************)
(* Lending & reservation scheduling engine of the library application:     *)
(* the ledger reconstruction, the availability calculator, the renewal     *)
(* capper, the reservation conflict validator and the offline write queue. *)
(*                                                                         *)
(* Dates are whole days counted from an arbitrary day 0.  A transaction    *)
(* id stands for `T${Date.now()}`, a reservation id for `R${Date.now()}`;  *)
(* both are drawn from one counter.                                        *)
(***************************************************************************)
EXTENDS Integers, Sequences, FiniteSets, TLC

VARIABLES
    books,          \* useState<Book[]>: set of [id, totalCopies]
    members,        \* useState<Member[]>: set of member ids
    transactions,   \* useState<Transaction[]>: the event log, in array order
    reservations,   \* useState<Reservation[]>, in array order
    online,         \* navigator.onLine
    offlineQueue,   \* localStorage 'offlineQueue'
    inflight,       \* remote operations awaited by handleLibraryAction
    sync,           \* position of syncOfflineData
    replayLog,      \* remote operations attempted by sync passes, in order
    now,            \* the clock (new Date()), in days
    nextId,         \* the clock reading ids are drawn from (Date.now())
    last            \* the most recent handler call and what it returned

vars == <<books, members, transactions, reservations, online, offlineQueue,
          inflight, sync, replayLog, now, nextId, last>>

-----------------------------------------------------------------------------
(* Bounds of the model *)

MaxId == 4           \* last reading of the clock (Date.now()) in a session
MaxInitLog == 2      \* most ledger events loaded by the initial fetch
MaxDay == 1          \* last day the clock reaches

BookIds == {"A001", "A002"}
MemberIds == {"0001", "0002"}

(* Program constants *)

loanPeriodDays == 15
NoDue == -1          \* an absent (falsy) dueDate

CheckOut == "CheckOut"
CheckIn == "CheckIn"

-----------------------------------------------------------------------------
(* Generic helpers *)

Max(a, b) == IF a >= b THEN a ELSE b

Range(s) == {s[i] : i \in DOMAIN s}

RECURSIVE Flatten(_)
Flatten(ss) == IF ss = <<>> THEN <<>> ELSE Head(ss) \o Flatten(Tail(ss))

RemoveAt(s, i) == [j \in 1..(Len(s) - 1) |-> IF j < i THEN s[j] ELSE s[j + 1]]

\* Array.prototype.sort((a, b) => key(a) - key(b)): ascending and stable.
\* ascendingOrder(keys)[p] is the index of the element that lands at place p;
\* element n goes behind the earlier elements whose key is not larger.
RECURSIVE ascendingUpTo(_, _)
ascendingUpTo(keys, n) ==
    IF n = 0 THEN <<>>
    ELSE LET prev == ascendingUpTo(keys, n - 1)
             pos == Cardinality({j \in 1..(n - 1) : keys[j] <= keys[n]})
         IN  SubSeq(prev, 1, pos) \o <<n>> \o SubSeq(prev, pos + 1, n - 1)

ascendingOrder(keys) == ascendingUpTo(keys, Len(keys))

RECURSIVE descendingUpTo(_, _)
descendingUpTo(keys, n) ==
    IF n = 0 THEN <<>>
    ELSE LET prev == descendingUpTo(keys, n - 1)
             pos == Cardinality({j \in 1..(n - 1) : keys[j] >= keys[n]})
         IN  SubSeq(prev, 1, pos) \o <<n>> \o SubSeq(prev, pos + 1, n - 1)

descendingOrder(keys) == descendingUpTo(keys, Len(keys))

\* Mutant: the comparator reversed (b - a).
sortByDateNewestFirst(ts) ==
    LET idx == descendingOrder([i \in 1..Len(ts) |-> ts[i].date])
    IN  [p \in 1..Len(ts) |-> ts[idx[p]]]

sortByDate(ts) ==
    LET idx == ascendingOrder([i \in 1..Len(ts) |-> ts[i].date])
    IN  [p \in 1..Len(ts) |-> ts[idx[p]]]

\* A JavaScript Map kept as its entries <<key, value>> in insertion order.
mapGet(m, k) ==
    IF \E i \in DOMAIN m : m[i][1] = k
    THEN m[CHOOSE i \in DOMAIN m : m[i][1] = k][2]
    ELSE <<>>

mapSet(m, k, v) ==
    IF \E i \in DOMAIN m : m[i][1] = k
    THEN [i \in DOMAIN m |-> IF m[i][1] = k THEN <<k, v>> ELSE m[i]]
    ELSE Append(m, <<k, v>>)

\* The distinct values of a sequence in order of first occurrence (new Set(...)).
RECURSIVE distinct(_)
distinct(s) ==
    IF s = <<>> THEN <<>>
    ELSE LET r == distinct(SubSeq(s, 1, Len(s) - 1))
             x == s[Len(s)]
         IN  IF x \in Range(r) THEN r ELSE Append(r, x)

-----------------------------------------------------------------------------
(* Ledger Reconstructor *)

\* Mutant: the newest open loan is closed instead of the oldest.
shiftNewest(list) == IF Len(list) > 0 THEN SubSeq(list, 1, Len(list) - 1) ELSE list

\* Array.prototype.shift(): drops the first element, a no-op on an empty array.
shift(list) == IF Len(list) > 0 THEN Tail(list) ELSE list

\* CheckinBook.checkedOutBooks: one walk over the whole log sorted by date.
RECURSIVE walkLoans(_, _, _)
walkLoans(sorted, i, activeLoansMap) ==
    IF i > Len(sorted) THEN activeLoansMap
    ELSE LET t == sorted[i]
             key == <<t.bookId, t.memberId>>
             activeList == mapGet(activeLoansMap, key)
         IN  walkLoans(sorted, i + 1,
                CASE t.type = CheckOut ->
                        mapSet(activeLoansMap, key, Append(activeList, t))
                  [] t.type = CheckIn /\ Len(activeList) > 0 ->
                        mapSet(activeLoansMap, key, shift(activeList))
                  [] OTHER -> activeLoansMap)

checkedOutBooks ==
    LET m == walkLoans(sortByDate(transactions), 1, <<>>)
    IN  Flatten([i \in DOMAIN m |-> m[i][2]])

\* The walk of one (member, title) group used by overdueBooks and by
\* calculateEarliestAvailableDate: CheckOut pushes, anything else shifts.
RECURSIVE walkPair(_, _, _)
walkPair(pt, i, active) ==
    IF i > Len(pt) THEN active
    ELSE walkPair(pt, i + 1,
            IF pt[i].type = CheckOut THEN Append(active, pt[i]) ELSE shift(active))

pairLoans(ts, mid, bid) ==
    walkPair(sortByDate(SelectSeq(ts, LAMBDA t : t.memberId = mid /\ t.bookId = bid)),
             1, <<>>)

\* App.overdueBooks, lines 145-153: the open loans, pair by pair.
activeLoansTransactions ==
    LET pairs == distinct([i \in DOMAIN transactions |->
                    <<transactions[i].memberId, transactions[i].bookId>>])
    IN  Flatten([k \in DOMAIN pairs |-> pairLoans(transactions, pairs[k][1], pairs[k][2])])

\* Array.prototype.pop(): drops the last element, a no-op on an empty array.
pop(list) == IF Len(list) > 0 THEN SubSeq(list, 1, Len(list) - 1) ELSE list

\* The walk of MemberDashboard.myActiveLoans over one title's history:
\* CheckOut pushes, anything else pops.
RECURSIVE walkStack(_, _, _)
walkStack(history, i, currentStack) ==
    IF i > Len(history) THEN currentStack
    ELSE walkStack(history, i + 1,
            IF history[i].type = CheckOut THEN Append(currentStack, history[i])
            ELSE pop(currentStack))

\* MemberDashboard.myActiveLoans, lines 42-64: the member's open loans, newest
\* first.
myActiveLoans(mid) ==
    LET bookTransactions == SelectSeq(transactions, LAMBDA t : t.memberId = mid)
        uniqueBookIds == distinct([i \in DOMAIN bookTransactions |->
                                      bookTransactions[i].bookId])
        active == Flatten([k \in DOMAIN uniqueBookIds |->
                     walkStack(sortByDate(SelectSeq(bookTransactions,
                                   LAMBDA t : t.bookId = uniqueBookIds[k])), 1, <<>>)])
        idx == descendingOrder([i \in DOMAIN active |-> active[i].date])
    IN  [p \in DOMAIN active |-> active[idx[p]]]

\* ReserveBook.calculateEarliestAvailableDate, lines 178-188: open loans of a title.
activeCheckouts(bid) ==
    LET bookTransactions == SelectSeq(transactions, LAMBDA t : t.bookId = bid)
        pairs == distinct([i \in DOMAIN bookTransactions |->
                    <<bookTransactions[i].memberId, bookTransactions[i].bookId>>])
    IN  Flatten([k \in DOMAIN pairs |->
                    pairLoans(bookTransactions, pairs[k][1], pairs[k][2])])

-----------------------------------------------------------------------------
(* Availability Calculator: App.booksWithAvailability *)

Active == "Active"

\* The tallies of lines 164-169: an event that is not a CheckOut counts as a
\* check-in.
checkoutCounts(bid) ==
    Len(SelectSeq(transactions, LAMBDA t : t.bookId = bid /\ t.type = CheckOut))

checkinCounts(bid) ==
    Len(SelectSeq(transactions, LAMBDA t : t.bookId = bid /\ t.type # CheckOut))

activeReservationsByBook(bid) ==
    SelectSeq(reservations, LAMBDA r : r.status = Active /\ r.bookId = bid)

\* Mutant: a title whose shelf copies are all spoken for still reads OnShelf.
bookStatusStrict(onShelfCopies, activeResCount) ==
    IF onShelfCopies <= 0 THEN "Unavailable"
    ELSE IF onShelfCopies < activeResCount THEN "Reserved"
    ELSE "OnShelf"

bookStatus(onShelfCopies, activeResCount) ==
    IF onShelfCopies <= 0 THEN "Unavailable"
    ELSE IF onShelfCopies <= activeResCount THEN "Reserved"
    ELSE "OnShelf"

availableCopies(book) ==
    LET checkedOut == Max(0, checkoutCounts(book.id) - checkinCounts(book.id))
    IN  book.totalCopies - checkedOut

booksWithAvailability ==
    {[id |-> book.id, totalCopies |-> book.totalCopies,
      availableCopies |-> availableCopies(book),
      status |-> bookStatus(availableCopies(book),
                            Len(activeReservationsByBook(book.id)))] : book \in books}

-----------------------------------------------------------------------------
(* The mutation pipeline: lib/OfflineManager.handleLibraryAction *)

NoLast == [op |-> "none", outcome |-> "none", message |-> "", subject |-> 0,
           mutation |-> <<>>]

Returned(op, outcome, message, subject, mutation) ==
    [op |-> op, outcome |-> outcome, message |-> message, subject |-> subject,
     mutation |-> mutation]

\* The onSuccess callbacks the handlers pass, as data: what each does to the
\* in-memory snapshot when it runs.
onSuccess(cb) ==
    /\ transactions' =
         CASE cb.kind = "appendTransaction" -> Append(transactions, cb.record)
           [] cb.kind = "renew" ->
                [i \in DOMAIN transactions |->
                    IF transactions[i].id = cb.record.id
                    THEN [transactions[i] EXCEPT
                            !.dueDate = cb.record.dueDate,
                            !.renewalCount = cb.record.renewalCount]
                    ELSE transactions[i]]
           [] OTHER -> transactions
    /\ reservations' =
         CASE cb.kind = "appendReservation" -> Append(reservations, cb.record)
           [] cb.kind = "setStatus" ->
                [i \in DOMAIN reservations |->
                    IF reservations[i].id = cb.record.id
                    THEN [reservations[i] EXCEPT !.status = cb.record.status]
                    ELSE reservations[i]]
           [] cb.kind = "setPickupDate" ->
                [i \in DOMAIN reservations |->
                    IF reservations[i].id = cb.record.id
                    THEN [reservations[i] EXCEPT !.pickupDate = cb.record.pickupDate]
                    ELSE reservations[i]]
           [] OTHER -> reservations
    /\ books' = IF cb.kind = "deleteBook"
                THEN {b \in books : b.id # cb.record.id} ELSE books
    /\ members' = IF cb.kind = "deleteMember"
                  THEN members \ {cb.record.id} ELSE members

Mutation(table, action, data, kind) ==
    [table |-> table, action |-> action, data |-> data,
     cb |-> [kind |-> kind, record |-> data]]

\* The content of localStorage's offlineQueue is the list of queued items, or
\* text that JSON.parse cannot read.
unreadable == <<[unreadable |-> TRUE]>>

\* Whether getQueue (and the same expression in OfflineStatus.updateCount)
\* throws a SyntaxError instead of returning the list.
getQueueThrows == offlineQueue = unreadable

\* Online: the remote operation is started and awaited; the callback runs
\* when it resolves without error.  Offline: the item is appended to the
\* queue and the callback runs at once; when getQueue throws, the function
\* ends there, outside its try block, with nothing written.
handleLibraryAction(mut) ==
    /\ nextId <= MaxId
    /\ nextId' = nextId + 1
    /\ IF online
       THEN /\ inflight' = Append(inflight, mut)
            /\ UNCHANGED <<offlineQueue, transactions, reservations, books, members>>
       ELSE IF getQueueThrows
       THEN UNCHANGED <<offlineQueue, inflight, transactions, reservations, books,
                        members>>
       ELSE /\ offlineQueue' = Append(offlineQueue,
                   [table |-> mut.table, action |-> mut.action, data |-> mut.data])
            /\ onSuccess(mut.cb)
            /\ UNCHANGED inflight

\* Mutant: a failed online attempt falls back to the offline branch.
RemoteRespondRequeue(i, outcome) ==
    /\ i \in DOMAIN inflight
    /\ inflight' = RemoveAt(inflight, i)
    /\ IF outcome = "ok"
       THEN onSuccess(inflight[i].cb) /\ UNCHANGED offlineQueue
       ELSE /\ offlineQueue' = Append(offlineQueue,
                   [table |-> inflight[i].table, action |-> inflight[i].action,
                    data |-> inflight[i].data])
            /\ onSuccess(inflight[i].cb)
    /\ UNCHANGED <<online, sync, replayLog, now, nextId, last>>

\* The awaited remote operation resolves: without error, with an error value
\* (thrown at line 23), or by throwing; the last two end in the catch block.
RemoteRespond(i, outcome) ==
    /\ i \in DOMAIN inflight
    /\ inflight' = RemoveAt(inflight, i)
    /\ IF outcome = "ok"
       THEN onSuccess(inflight[i].cb)
       ELSE UNCHANGED <<transactions, reservations, books, members>>
    /\ UNCHANGED <<online, offlineQueue, sync, replayLog, now, nextId, last>>

RemoteOutcomes == {"ok", "error", "thrown"}

GoOffline ==
    /\ online
    /\ online' = FALSE
    /\ UNCHANGED <<books, members, transactions, reservations, offlineQueue,
                   inflight, sync, replayLog, now, nextId, last>>

GoOnline ==
    /\ ~online
    /\ online' = TRUE
    /\ UNCHANGED <<books, members, transactions, reservations, offlineQueue,
                   inflight, sync, replayLog, now, nextId, last>>

Tick ==
    /\ now < MaxDay
    /\ now' = now + 1
    /\ UNCHANGED <<books, members, transactions, reservations, online,
                   offlineQueue, inflight, sync, replayLog, nextId, last>>

-----------------------------------------------------------------------------
(* Offline write queue: OfflineStatus.handleSync, OfflineManager.syncOfflineData *)

Idle == [pc |-> "idle", queue |-> <<>>, total |-> 0, i |-> 0, failedItems |-> <<>>]

\* handleSync starts a pass unless one is running.  The pass reads the queue
\* and returns true when it is empty; else it reads the clock and awaits the
\* remote operation of the first item.  When getQueue throws, so do
\* syncOfflineData and handleSync, which never resets isSyncing.
handleSync ==
    /\ sync.pc = "idle"
    /\ IF getQueueThrows
       THEN /\ last' = Returned("syncOfflineData", "thrown", "SyntaxError", 0, <<>>)
            /\ sync' = [Idle EXCEPT !.pc = "syncing"]
            /\ UNCHANGED nextId
       ELSE IF Len(offlineQueue) = 0
       THEN /\ last' = Returned("syncOfflineData", "true", "", 0, <<>>)
            /\ UNCHANGED <<sync, nextId>>
       ELSE /\ nextId <= MaxId
            /\ nextId' = nextId + 1
            /\ sync' = [pc |-> "replay", queue |-> offlineQueue,
                        total |-> Len(offlineQueue), i |-> 1, failedItems |-> <<>>]
            /\ UNCHANGED last
    /\ UNCHANGED <<books, members, transactions, reservations, online, offlineQueue,
                   inflight, replayLog, now>>

\* Mutant: the report counts the items still to come.
onProgressRemaining(i, total) == [processed |-> total - i, total |-> total]

\* Lines 62-70: after the item at place i of the snapshot (from 1) the
\* progress callback gets processed = i and the length of the snapshot.
onProgress(i, total) == [processed |-> i, total |-> total]

\* A pass that gives up at the first exception, leaving the later items
\* of the snapshot unattempted.
syncOfflineDataAborting(outcome) ==
    /\ sync.pc = "replay"
    /\ LET item == sync.queue[sync.i]
       IN  /\ replayLog' = Append(replayLog,
                  [item |-> item, outcome |-> outcome,
                   progress |-> onProgress(sync.i, sync.total)])
           /\ IF sync.i < sync.total /\ outcome # "thrown"
              THEN /\ sync' = [sync EXCEPT !.i = sync.i + 1]
                   /\ UNCHANGED <<offlineQueue, last>>
              ELSE /\ sync' = Idle
                   /\ IF outcome = "thrown"
                      THEN /\ offlineQueue' = <<item>>
                           /\ last' = Returned("syncOfflineData", "false",
                                               "Synced with errors", 0, <<>>)
                      ELSE /\ offlineQueue' = <<>>
                           /\ last' = Returned("syncOfflineData", "true", "", 0, <<>>)
    /\ UNCHANGED <<books, members, transactions, reservations, online, inflight,
                   now, nextId>>

\* The awaited remote operation of item sync.i settles.  Only an exception
\* reaches the catch block that pushes the item to failedItems; the value the
\* operation returns is not looked at.  After the last item the pass stores
\* failedItems as the queue and returns false, or removes the queue and
\* returns true.
syncOfflineData(outcome) ==
    /\ sync.pc = "replay"
    /\ LET item == sync.queue[sync.i]
           failedItems == IF outcome = "thrown"
                          THEN Append(sync.failedItems, item)
                          ELSE sync.failedItems
       IN  /\ replayLog' = Append(replayLog,
                  [item |-> item, outcome |-> outcome,
                   progress |-> onProgress(sync.i, sync.total)])
           /\ IF sync.i < sync.total
              THEN /\ sync' = [sync EXCEPT !.i = sync.i + 1,
                                           !.failedItems = failedItems]
                   /\ UNCHANGED <<offlineQueue, last>>
              ELSE /\ sync' = Idle
                   /\ IF Len(failedItems) > 0
                      THEN /\ offlineQueue' = failedItems
                           /\ last' = Returned("syncOfflineData", "false",
                                               "Synced with errors", 0, <<>>)
                      ELSE /\ offlineQueue' = <<>>
                           /\ last' = Returned("syncOfflineData", "true", "", 0, <<>>)
    /\ UNCHANGED <<books, members, transactions, reservations, online, inflight,
                   now, nextId>>

-----------------------------------------------------------------------------
(* Ledger handlers: App.handleCheckout, App.handleCheckin *)

Transaction(id, bid, mid, type, date, dueDate, renewalCount) ==
    [id |-> id, bookId |-> bid, memberId |-> mid, type |-> type, date |-> date,
     dueDate |-> dueDate, renewalCount |-> renewalCount]

handleCheckout(bid, mid, dd) ==
    IF ~(\E b \in books : b.id = bid)
    THEN /\ last' = Returned("handleCheckout", "failure", "Book not found", 0, <<>>)
         /\ UNCHANGED <<books, members, transactions, reservations, online,
                        offlineQueue, inflight, sync, replayLog, now, nextId>>
    ELSE LET trans == Transaction(nextId, bid, mid, CheckOut, now, dd, 0)
             mut == Mutation("transactions", "INSERT", trans, "appendTransaction")
         IN  /\ handleLibraryAction(mut)
             /\ last' = Returned("handleCheckout", "success", "Checkout successful",
                                 trans.id, <<mut>>)
             /\ UNCHANGED <<online, sync, replayLog, now>>

handleCheckin(bid, mid) ==
    LET trans == Transaction(nextId, bid, mid, CheckIn, now, NoDue, 0)
        mut == Mutation("transactions", "INSERT", trans, "appendTransaction")
    IN  /\ handleLibraryAction(mut)
        /\ last' = Returned("handleCheckin", "void", "", trans.id, <<mut>>)
        /\ UNCHANGED <<online, sync, replayLog, now>>

-----------------------------------------------------------------------------
(* Catalogue removal: App.handleDeleteBook, App.handleDeleteMember *)

\* Lines 273-275: the CheckOut rows of the title minus its CheckIn rows.
netCheckedOut(id) ==
    Len(SelectSeq(transactions, LAMBDA t : t.bookId = id /\ t.type = CheckOut))
    - Len(SelectSeq(transactions, LAMBDA t : t.bookId = id /\ t.type = CheckIn))

handleDeleteBook(id) ==
    IF netCheckedOut(id) > 0
    THEN /\ last' = Returned("handleDeleteBook", "rejected",
                             "Cannot delete: Book is issued to a member. Receive it first.",
                             0, <<>>)
         /\ UNCHANGED <<books, members, transactions, reservations, online,
                        offlineQueue, inflight, sync, replayLog, now, nextId>>
    ELSE LET mut == Mutation("books", "DELETE", [id |-> id], "deleteBook")
         IN  /\ handleLibraryAction(mut)
             /\ last' = Returned("handleDeleteBook", "void", "", 0, <<mut>>)
             /\ UNCHANGED <<online, sync, replayLog, now>>

\* Lines 310-319: per title, the member's CheckOut rows minus their CheckIn
\* rows; the member has active loans when one of these counts is positive.
hasActiveLoans(id) ==
    \E bid \in {transactions[i].bookId : i \in DOMAIN transactions} :
        Len(SelectSeq(transactions, LAMBDA t :
                t.memberId = id /\ t.bookId = bid /\ t.type = CheckOut))
        - Len(SelectSeq(transactions, LAMBDA t :
                t.memberId = id /\ t.bookId = bid /\ t.type = CheckIn)) > 0

handleDeleteMember(id) ==
    IF hasActiveLoans(id)
    THEN /\ last' = Returned("handleDeleteMember", "rejected",
                             "Cannot delete: Member has unreturned books.", 0, <<>>)
         /\ UNCHANGED <<books, members, transactions, reservations, online,
                        offlineQueue, inflight, sync, replayLog, now, nextId>>
    ELSE LET mut == Mutation("members", "DELETE", [id |-> id], "deleteMember")
         IN  /\ handleLibraryAction(mut)
             /\ last' = Returned("handleDeleteMember", "void", "", 0, <<mut>>)
             /\ UNCHANGED <<online, sync, replayLog, now>>

-----------------------------------------------------------------------------
(* Renewal Capper: App.handleRenewLoan *)

\* reservations.filter(...).sort(...) of lines 376-380, for a standard renewed
\* date newDueDate.
conflictingReservations(bid, newDueDate) ==
    LET hits == SelectSeq(reservations, LAMBDA r :
                    r.bookId = bid /\ r.status = Active /\ r.pickupDate < newDueDate)
        idx == ascendingOrder([i \in 1..Len(hits) |-> hits[i].pickupDate])
    IN  [p \in 1..Len(hits) |-> hits[idx[p]]]

\* Lines 382-384; the log holds no other type than CheckOut and CheckIn.
currentOnShelf(book) ==
    book.totalCopies - (checkoutCounts(book.id) - checkinCounts(book.id))

\* What the renewal decides for a loan: the new due date, a rejection, or the
\* TypeError of reading conflictingReservations[0] of an empty list.
renewalDecision(loan) ==
    LET currentDueDateObj == IF loan.dueDate # NoDue THEN loan.dueDate ELSE loan.date
        newDueDate == currentDueDateObj + loanPeriodDays
        full == [outcome |-> "success", newDueDate |-> newDueDate]
    IN  IF ~(\E b \in books : b.id = loan.bookId) THEN full
        ELSE LET book == CHOOSE b \in books : b.id = loan.bookId
                 conflicting == conflictingReservations(loan.bookId, newDueDate)
             IN  IF ~(Len(conflicting) > currentOnShelf(book)) THEN full
                 ELSE IF Len(conflicting) = 0
                 THEN [outcome |-> "threw", newDueDate |-> NoDue]
                 ELSE LET cappedDueDate == conflicting[1].pickupDate - 1
                      IN  IF cappedDueDate <= currentDueDateObj
                          THEN [outcome |-> "failure", newDueDate |-> NoDue]
                          ELSE [outcome |-> "success", newDueDate |-> cappedDueDate]

handleRenewLoan(transactionId) ==
    IF ~(\E i \in DOMAIN transactions : transactions[i].id = transactionId)
    THEN /\ last' = Returned("handleRenewLoan", "failure", "Record not found.",
                             transactionId, <<>>)
         /\ UNCHANGED <<books, members, transactions, reservations, online,
                        offlineQueue, inflight, sync, replayLog, now, nextId>>
    ELSE LET loan == transactions[CHOOSE i \in DOMAIN transactions :
                                    transactions[i].id = transactionId]
             decision == renewalDecision(loan)
             updateData == [id |-> transactionId, dueDate |-> decision.newDueDate,
                            renewalCount |-> loan.renewalCount + 1]
             mut == Mutation("transactions", "UPDATE", updateData, "renew")
         IN  CASE decision.outcome = "threw" ->
                    /\ last' = Returned("handleRenewLoan", "threw", "TypeError",
                                        transactionId, <<>>)
                    /\ UNCHANGED <<books, members, transactions, reservations, online,
                                   offlineQueue, inflight, sync, replayLog, now, nextId>>
               [] decision.outcome = "failure" ->
                    /\ last' = Returned("handleRenewLoan", "failure",
                                        "Blocked by Reservation", transactionId, <<>>)
                    /\ UNCHANGED <<books, members, transactions, reservations, online,
                                   offlineQueue, inflight, sync, replayLog, now, nextId>>
               [] OTHER ->
                    /\ handleLibraryAction(mut)
                    /\ last' = Returned("handleRenewLoan", "success", "Renewed",
                                        transactionId, <<mut>>)
                    /\ UNCHANGED <<online, sync, replayLog, now>>

-----------------------------------------------------------------------------
(* Reservation handlers: App.handleReserveBook and the like, and the
   validating callers in components/ReserveBook *)

Reservation(id, bid, mid, reservationDate, pickupDate, status) ==
    [id |-> id, bookId |-> bid, memberId |-> mid, reservationDate |-> reservationDate,
     pickupDate |-> pickupDate, status |-> status]

\* Array.prototype.find as a test: some reservation satisfies the predicate.
found(P(_)) == \E i \in DOMAIN reservations : P(reservations[i])

handleReserveBook(bid, mid, pickupDate) ==
    LET nr == Reservation(nextId, bid, mid, now, pickupDate, Active)
        mut == Mutation("reservations", "INSERT", nr, "appendReservation")
    IN  /\ handleLibraryAction(mut)
        /\ last' = Returned("handleReserveBook", "success", "Reserved", nr.id, <<mut>>)
        /\ UNCHANGED <<online, sync, replayLog, now>>

\* A handler that sets the status of reservation id and returns message.
setReservationStatus(op, id, status, outcome, message) ==
    LET mut == Mutation("reservations", "UPDATE", [id |-> id, status |-> status],
                        "setStatus")
    IN  /\ handleLibraryAction(mut)
        /\ last' = Returned(op, outcome, message, id, <<mut>>)
        /\ UNCHANGED <<online, sync, replayLog, now>>

handleCancelReservation(id) ==
    setReservationStatus("handleCancelReservation", id, "Cancelled", "success", "Cancelled")

handleIssueReservedBook(id) ==
    setReservationStatus("handleIssueReservedBook", id, "Fulfilled", "success", "Issued")

handleCancelOverdueReservation(id) ==
    setReservationStatus("handleCancelOverdueReservation", id, "Cancelled (Overdue)",
                         "void", "")

handleUpdateReservationDate(id, date) ==
    LET mut == Mutation("reservations", "UPDATE", [id |-> id, pickupDate |-> date],
                        "setPickupDate")
    IN  /\ handleLibraryAction(mut)
        /\ last' = Returned("handleUpdateReservationDate", "success", "Date updated.",
                            id, <<mut>>)
        /\ UNCHANGED <<online, sync, replayLog, now>>

\* The member portal's cancel button (inline handler passed to MemberDashboard).
onCancelReservation(id) ==
    setReservationStatus("onCancelReservation", id, "Cancelled (Member)", "success",
                         "Cancelled")

\* App.overdueReservations: Active reservations whose pickup day is past.
overdueReservations ==
    SelectSeq(reservations, LAMBDA r : r.status = Active /\ r.pickupDate < now)

\* Dashboard.handleConfirmExtend: the overdue notice passes the chosen date
\* straight to handleUpdateReservationDate; the date field opens on the day
\* after tomorrow and accepts no day before today.
handleConfirmExtend(reservationToExtend, newPickupDate) ==
    /\ newPickupDate >= now
    /\ handleUpdateReservationDate(reservationToExtend.id, newPickupDate)

\* MemberDashboard.myReservations: the Active reservations of the signed-in member.
myReservations(mid) ==
    SelectSeq(reservations, LAMBDA r : r.memberId = mid /\ r.status = Active)

\* A handler that returns without calling the pipeline.
rejected(op, message, subject) ==
    /\ last' = Returned(op, "rejected", message, subject, <<>>)
    /\ UNCHANGED <<books, members, transactions, reservations, online, offlineQueue,
                   inflight, sync, replayLog, now, nextId>>

Abs(x) == IF x < 0 THEN -x ELSE x

\* date-fns differenceInDays of two dates at midnight.
differenceInDays(a, b) == a - b

minGapDays == 15

\* Mutant: pickup dates exactly minGapDays apart are refused as well.
tooCloseInclusive(a, b) == Abs(differenceInDays(a, b)) <= minGapDays

\* The test of lines 269 and 330.
tooClose(a, b) == Abs(differenceInDays(a, b)) < minGapDays

\* ReserveBook.handleReserveSubmit with bookToReserve, memberId and pickupDate set.
handleReserveSubmit(bid, memberId, pickupDate) ==
    IF memberId \notin members
    THEN rejected("handleReserveSubmit", "Member not found", 0)
    ELSE IF found(LAMBDA r : r.memberId = memberId /\ r.bookId = bid /\ r.status = Active)
    THEN rejected("handleReserveSubmit", "Duplicate", 0)
    ELSE IF found(LAMBDA r : /\ r.memberId = memberId
                             /\ r.status = Active
                             /\ tooClose(pickupDate, r.pickupDate))
    THEN rejected("handleReserveSubmit", "Conflict", 0)
    ELSE handleReserveBook(bid, memberId, pickupDate)

\* ReserveBook.handleConfirmDateChange with resToEdit and newEditDate set.
handleConfirmDateChange(resToEdit, newEditDate) ==
    IF found(LAMBDA r : /\ r.id # resToEdit.id
                        /\ r.memberId = resToEdit.memberId
                        /\ r.status = Active
                        /\ tooClose(newEditDate, r.pickupDate))
    THEN rejected("handleConfirmDateChange", "Cannot update", resToEdit.id)
    ELSE handleUpdateReservationDate(resToEdit.id, newEditDate)

\* The reservations the ReserveBook screen lists, each with its buttons.
filteredReservations == SelectSeq(reservations, LAMBDA r : r.status = Active)

-----------------------------------------------------------------------------
(* Reservation Timeline Simulator: ReserveBook.calculateEarliestAvailableDate, *)
(* ReserveBook.calculateMaxPickupDate                                          *)

\* Inside the simulator dates are instants (Date objects), counted here in
\* half days: 2 * d is midnight of day d, which is what parseISO gives for a
\* date without a time and startOfDay for any instant of day d; 2 * d + 1 is
\* an instant later on day d.
startOfDay(d) == 2 * d
laterOn(d) == 2 * d + 1

\* format(instant, 'yyyy-MM-dd'): the day of an instant.
format(instant) == instant \div 2

\* new Date(0), before every day of the model.
epoch == -2

maxHorizonDays == 90

sortAscending(dates) ==
    LET idx == ascendingOrder(dates)
    IN  [p \in 1..Len(dates) |-> dates[idx[p]]]

\* Lines 190-198.  A loan without dueDate is due loanPeriodDays after the
\* instant it was taken, which is not midnight; late holds the ids of the
\* loans whose stored dueDate is an instant after midnight of its day (the
\* snapshot keeps the day only).
copyFreeDates(book, late) ==
    LET checkouts == activeCheckouts(book.id)
        dueDate(c) == IF c.dueDate # NoDue
                      THEN IF c.id \in late THEN laterOn(c.dueDate)
                                            ELSE startOfDay(c.dueDate)
                      ELSE laterOn(c.date + loanPeriodDays)
        onShelfCopies == book.totalCopies - Len(checkouts)
    IN  [i \in 1..Len(checkouts) |-> dueDate(checkouts[i])]
        \o [i \in 1..Max(0, onShelfCopies) |-> epoch]

\* The Active reservations of a title by pickupDate ascending (lines 200-202,
\* 231-233).
bookReservations(bid) ==
    LET rs == SelectSeq(reservations, LAMBDA r : r.bookId = bid /\ r.status = Active)
        idx == ascendingOrder([i \in 1..Len(rs) |-> rs[i].pickupDate])
    IN  [p \in 1..Len(rs) |-> rs[idx[p]]]

\* Lines 206-219, from reservation k on: the reservation takes the first copy
\* that is free at its pickup date, if any, and the dates are sorted again.
RECURSIVE assignCopies(_, _, _)
assignCopies(tempCopyFreeDates, rs, k) ==
    IF k > Len(rs) THEN tempCopyFreeDates
    ELSE LET resPickupDate == startOfDay(rs[k].pickupDate)
             free == {i \in DOMAIN tempCopyFreeDates :
                        tempCopyFreeDates[i] <= resPickupDate}
         IN  IF free = {} THEN assignCopies(tempCopyFreeDates, rs, k + 1)
             ELSE LET i == CHOOSE j \in free : \A l \in free : j <= l
                  IN  assignCopies(
                        sortAscending([tempCopyFreeDates EXCEPT
                            ![i] = startOfDay(rs[k].pickupDate + loanPeriodDays)]),
                        rs, k + 1)

\* The instant returned at line 223; tempCopyFreeDates[0] of an empty array is
\* undefined, which isAfter takes as not after tomorrow.
calculateEarliestAvailableDate(book, late) ==
    LET tempCopyFreeDates ==
            assignCopies(sortAscending(copyFreeDates(book, late)),
                         bookReservations(book.id), 1)
        tomorrow == laterOn(now + 1)
    IN  IF tempCopyFreeDates # <<>> /\ tempCopyFreeDates[1] > tomorrow
        THEN tempCopyFreeDates[1]
        ELSE tomorrow

\* The reservation form opens with the earliest date as its pickupDate.
handleOpenReservationModal(book, late) ==
    /\ last' = Returned("handleOpenReservationModal", "pickupDate", "",
                        format(calculateEarliestAvailableDate(book, late)), <<>>)
    /\ UNCHANGED <<books, members, transactions, reservations, online, offlineQueue,
                   inflight, sync, replayLog, now, nextId>>

\* Mutant: the reservation right after the edited one is taken as blocking.
blockingIndexNext(currentIndex, totalCopies) == currentIndex + 1

\* Line 236, on places counted from 1.
blockingIndex(currentIndex, totalCopies) == currentIndex + totalCopies

\* The day of the date calculateMaxPickupDate returns, and isReservationLimit.
calculateMaxPickupDate(reservation) ==
    IF ~(\E b \in books : b.id = reservation.bookId)
    THEN [date |-> now + maxHorizonDays, isReservationLimit |-> FALSE]
    ELSE LET book == CHOOSE b \in books : b.id = reservation.bookId
             rs == bookReservations(reservation.bookId)
             places == {i \in DOMAIN rs : rs[i].id = reservation.id}
             currentIndex == IF places = {} THEN 0
                             ELSE CHOOSE i \in places : \A j \in places : i <= j
             blocking == blockingIndex(currentIndex, book.totalCopies)
         IN  IF blocking <= Len(rs) /\ blocking >= 1
             THEN [date |-> rs[blocking].pickupDate - loanPeriodDays,
                   isReservationLimit |-> TRUE]
             ELSE [date |-> now + maxHorizonDays, isReservationLimit |-> FALSE]

\* The edit form opens with the latest date as the maximum of its date field.
handleOpenEditDate(res) ==
    /\ last' = Returned("handleOpenEditDate",
                        IF calculateMaxPickupDate(res).isReservationLimit
                        THEN "limit" ELSE "horizon",
                        "", calculateMaxPickupDate(res).date, <<>>)
    /\ UNCHANGED <<books, members, transactions, reservations, online, offlineQueue,
                   inflight, sync, replayLog, now, nextId>>

-----------------------------------------------------------------------------
(* Specifications *)

\* Each specification starts from a snapshot as fetchAllData loads it, with ids
\* below the clock.  The clock starts at MaxId where the session issues one
\* mutation and at MaxId - 1 where it issues two.

TheBooks == {[id |-> "A001", totalCopies |-> 1], [id |-> "A002", totalCopies |-> 2]}

\* The snapshot of a fresh installation: nothing lent, nothing reserved.
Init ==
    /\ books = TheBooks
    /\ members = MemberIds
    /\ transactions = <<>>
    /\ reservations = <<>>
    /\ online = TRUE
    /\ offlineQueue = <<>>
    /\ inflight = <<>>
    /\ sync = Idle
    /\ replayLog = <<>>
    /\ now = 0
    /\ nextId = MaxId - 1
    /\ last = NoLast

\* Ledger rows the remote store may hold when fetchAllData loads it: any
\* events, in any order, dated on any day up to today.
LedgerPairs == {<<"A001", "0001">>, <<"A001", "0002">>}

LedgerRow(id, p, type, d) ==
    Transaction(id, p[1], p[2], type, d,
                IF type = CheckOut THEN d + loanPeriodDays ELSE NoDue, 0)

\* The logs of n events about the given pairs on the given days, ids 1..n.
Logs(pairs, days, n) ==
    {[i \in 1..n |-> LedgerRow(i, f[i][1], f[i][2], f[i][3])] :
        f \in [1..n -> pairs \X {CheckOut, CheckIn} \X days]}

LedgerLogs == UNION {Logs(LedgerPairs, 0..MaxDay, n) : n \in 0..MaxInitLog}

\* The lists of m reservations with ids firstId.. made on day 0.
ReservationLists(firstId, pairs, pickups, statuses, m) ==
    {[i \in 1..m |-> Reservation(firstId + i - 1, f[i][1][1], f[i][1][2], 0,
                                 f[i][2], f[i][3])] :
        f \in [1..m -> pairs \X pickups \X statuses]}

InitLedger ==
    /\ books = TheBooks
    /\ members = MemberIds
    /\ transactions \in LedgerLogs
    /\ reservations = <<>>
    /\ online \in BOOLEAN
    /\ offlineQueue = <<>>
    /\ inflight = <<>>
    /\ sync = Idle
    /\ replayLog = <<>>
    /\ now = MaxDay
    /\ nextId = MaxId
    /\ last = NoLast

NextLedger ==
    \/ \E p \in LedgerPairs : handleCheckout(p[1], p[2], now + loanPeriodDays)
    \/ \E p \in LedgerPairs : handleCheckin(p[1], p[2])
    \/ \E i \in DOMAIN inflight, outcome \in RemoteOutcomes : RemoteRespond(i, outcome)

SpecLedger == InitLedger /\ [][NextLedger]_vars

\* Availability: a snapshot of loans and of reservations, cancelled or not, of
\* both titles, and the desk operations that add to either.
AvailLoanPairs == {<<"A001", "0001">>, <<"A002", "0001">>}
AvailPairs == BookIds \X MemberIds

InitAvail ==
    /\ books = TheBooks
    /\ members = MemberIds
    /\ \E n \in 0..MaxInitLog : \E m \in 0..(MaxInitLog - n) :
          /\ transactions \in Logs(AvailLoanPairs, {MaxDay}, n)
          /\ reservations \in ReservationLists(n + 1, AvailPairs, {MaxDay + 1},
                                               {Active, "Cancelled"}, m)
    /\ online \in BOOLEAN
    /\ offlineQueue = <<>>
    /\ inflight = <<>>
    /\ sync = Idle
    /\ replayLog = <<>>
    /\ now = MaxDay
    /\ nextId = MaxId
    /\ last = NoLast

NextAvail ==
    \/ \E p \in AvailLoanPairs : handleCheckout(p[1], p[2], now + loanPeriodDays)
    \/ \E p \in AvailLoanPairs : handleCheckin(p[1], p[2])
    \/ \E p \in AvailPairs : handleReserveSubmit(p[1], p[2], now + 1)
    \/ \E i \in DOMAIN inflight, outcome \in RemoteOutcomes : RemoteRespond(i, outcome)

SpecAvail == InitAvail /\ [][NextAvail]_vars

\* Renewal: loans taken on day 0, with an explicit due date or none, some of
\* them returned, and reservations picked up around the due dates.
RenewPairs == {<<"A001", "0001">>, <<"A002", "0001">>}
RenewPickups == {loanPeriodDays - 5, loanPeriodDays + 1, loanPeriodDays + 5}

RenewLogs(n) ==
    {[i \in 1..n |-> Transaction(i, f[i][1][1], f[i][1][2], f[i][2], 0, f[i][3], 0)] :
        f \in [1..n -> (RenewPairs \X {CheckOut} \X {loanPeriodDays, NoDue})
                        \cup (RenewPairs \X {CheckIn} \X {NoDue})]}

InitRenew ==
    /\ books = TheBooks
    /\ members = MemberIds
    /\ \E n \in 0..MaxInitLog : \E m \in 0..(MaxInitLog - n) :
          /\ transactions \in RenewLogs(n)
          /\ reservations \in ReservationLists(n + 1, BookIds \X {"0002"},
                                               RenewPickups, {Active}, m)
    /\ online \in BOOLEAN
    /\ offlineQueue = <<>>
    /\ inflight = <<>>
    /\ sync = Idle
    /\ replayLog = <<>>
    /\ now = MaxDay
    /\ nextId = MaxId
    /\ last = NoLast

NextRenew ==
    \/ \E k \in DOMAIN checkedOutBooks :
            handleRenewLoan(checkedOutBooks[k].id)
    \/ \E k \in DOMAIN checkedOutBooks :
            handleCheckin(checkedOutBooks[k].bookId, checkedOutBooks[k].memberId)
    \/ \E k \in DOMAIN filteredReservations :
            handleCancelReservation(filteredReservations[k].id)
    \/ \E i \in DOMAIN inflight, outcome \in RemoteOutcomes : RemoteRespond(i, outcome)

SpecRenew == InitRenew /\ [][NextRenew]_vars

\* Settings.maxRenewals as the application starts (useState default).
maxRenewals == 2

\* Renewals of loans already renewed zero times or maxRenewals times, two
\* mutations at most.
RenewedLoans(n) ==
    {[i \in 1..n |-> Transaction(i, f[i][1][1], f[i][1][2], CheckOut, 0, f[i][2], f[i][3])] :
        f \in [1..n -> RenewPairs \X {loanPeriodDays, NoDue} \X {0, maxRenewals}]}

InitRenewals ==
    /\ books = TheBooks
    /\ members = MemberIds
    /\ \E n \in 1..MaxInitLog : \E m \in 0..(MaxInitLog - n) :
          /\ transactions \in RenewedLoans(n)
          /\ reservations \in ReservationLists(n + 1, {<<"A001", "0002">>},
                                               RenewPickups, {Active}, m)
    /\ online \in BOOLEAN
    /\ offlineQueue = <<>>
    /\ inflight = <<>>
    /\ sync = Idle
    /\ replayLog = <<>>
    /\ now = MaxDay
    /\ nextId = MaxId - 1
    /\ last = NoLast

SpecRenewals == InitRenewals /\ [][NextRenew]_vars

\* Reservations: a snapshot holding no duplicate, and the reservation screen
\* used for members 0001 and 0002 and for an id that is no member's.
ReservePickups == {1, minGapDays, minGapDays + 1}
UnknownMember == "9999"

NoDuplicate(rs) ==
    \A i, j \in DOMAIN rs :
        /\ rs[i].status = Active /\ rs[j].status = Active
        /\ rs[i].memberId = rs[j].memberId /\ rs[i].bookId = rs[j].bookId
        => i = j

InitReserve ==
    /\ books = TheBooks
    /\ members = MemberIds
    /\ transactions = <<>>
    /\ \E m \in 0..(MaxInitLog - 1) :
          reservations \in ReservationLists(1, BookIds \X MemberIds, ReservePickups,
                                            {Active, "Cancelled"}, m)
    /\ NoDuplicate(reservations)
    /\ online \in BOOLEAN
    /\ offlineQueue = <<>>
    /\ inflight = <<>>
    /\ sync = Idle
    /\ replayLog = <<>>
    /\ now = 0
    /\ nextId = MaxId - 1
    /\ last = NoLast

NextReserve ==
    \/ \E bid \in BookIds, mid \in {"0001", UnknownMember}, d \in ReservePickups :
            handleReserveSubmit(bid, mid, d)
    \/ \E k \in DOMAIN filteredReservations, d \in ReservePickups :
            handleConfirmDateChange(filteredReservations[k], d)
    \/ \E k \in DOMAIN filteredReservations :
            handleCancelReservation(filteredReservations[k].id)
    \/ \E k \in DOMAIN filteredReservations :
            handleIssueReservedBook(filteredReservations[k].id)
    \/ \E i \in DOMAIN inflight, outcome \in RemoteOutcomes : RemoteRespond(i, outcome)

SpecReserve == InitReserve /\ [][NextReserve]_vars

\* The reservation screen over a loaded list of reservations: one submission
\* or one pickup-date edit reaches the pipeline, and any number are refused.
\* The rows it loads: reservations of member 0001, and one of member 0002.
ValidatorRows ==
    ({<<"A001", "0001">>, <<"A002", "0001">>} \X {1, minGapDays + 1}
                                             \X {Active, "Cancelled"})
    \cup {<<<<"A002", "0002">>, 1, Active>>}

ValidatorLists(m) ==
    {[i \in 1..m |-> Reservation(i, f[i][1][1], f[i][1][2], 0, f[i][2], f[i][3])] :
        f \in [1..m -> ValidatorRows]}

InitValidator ==
    /\ books = TheBooks
    /\ members = MemberIds
    /\ transactions = <<>>
    /\ \E m \in 0..MaxInitLog :
          reservations \in ValidatorLists(m)
    /\ NoDuplicate(reservations)
    /\ online \in BOOLEAN
    /\ offlineQueue = <<>>
    /\ inflight = <<>>
    /\ sync = Idle
    /\ replayLog = <<>>
    /\ now = 0
    /\ nextId = MaxId
    /\ last = NoLast

NextValidator ==
    \/ \E bid \in BookIds, mid \in {"0001", UnknownMember}, d \in ReservePickups :
            handleReserveSubmit(bid, mid, d)
    \/ \E k \in DOMAIN filteredReservations, d \in ReservePickups :
            handleConfirmDateChange(filteredReservations[k], d)
    \/ \E i \in DOMAIN inflight, outcome \in RemoteOutcomes : RemoteRespond(i, outcome)

SpecValidator == InitValidator /\ [][NextValidator]_vars

\* A session that starts with mutations of an earlier offline session in the
\* persisted queue: the desk lends a book, the connection comes and goes, and
\* sync passes replay the queue.
QueuedItem(id, type) ==
    [table |-> "transactions", action |-> "INSERT",
     data |-> Transaction(id, "A001", "0001", type, 0,
                          IF type = CheckOut THEN loanPeriodDays ELSE NoDue, 0)]

Queues(n) ==
    {[i \in 1..n |-> QueuedItem(i, f[i])] : f \in [1..n -> {CheckOut, CheckIn}]}

InitSync ==
    /\ books = TheBooks
    /\ members = MemberIds
    /\ transactions = <<>>
    /\ reservations = <<>>
    /\ online \in BOOLEAN
    /\ \E n \in 0..MaxInitLog : offlineQueue \in Queues(n)
    /\ inflight = <<>>
    /\ sync = Idle
    /\ replayLog = <<>>
    /\ now = 0
    /\ nextId = MaxId - 1
    /\ last = NoLast

NextSync ==
    \/ handleCheckout("A002", "0002", loanPeriodDays)
    \/ handleSync
    \/ \E outcome \in RemoteOutcomes : syncOfflineData(outcome)
    \/ \E i \in DOMAIN inflight, outcome \in RemoteOutcomes : RemoteRespond(i, outcome)
    \/ GoOffline
    \/ GoOnline

SpecSync == InitSync /\ [][NextSync]_vars

\* The same operations when the persisted queue may hold unreadable text.
InitCorrupt ==
    /\ books = TheBooks
    /\ members = MemberIds
    /\ transactions = <<>>
    /\ reservations = <<>>
    /\ online \in BOOLEAN
    /\ offlineQueue \in {unreadable} \cup Queues(0) \cup Queues(1)
    /\ inflight = <<>>
    /\ sync = Idle
    /\ replayLog = <<>>
    /\ now = 0
    /\ nextId = MaxId - 1
    /\ last = NoLast

SpecCorrupt == InitCorrupt /\ [][NextSync]_vars

\* The desk and the catalogue screen over a loaded ledger: loans are made and
\* returned while titles and members are removed.
InitDelete ==
    /\ books = TheBooks
    /\ members = MemberIds
    /\ transactions \in LedgerLogs
    /\ reservations = <<>>
    /\ online \in BOOLEAN
    /\ offlineQueue = <<>>
    /\ inflight = <<>>
    /\ sync = Idle
    /\ replayLog = <<>>
    /\ now = MaxDay
    /\ nextId = MaxId - 1
    /\ last = NoLast

NextDelete ==
    \/ \E p \in LedgerPairs : handleCheckout(p[1], p[2], now + loanPeriodDays)
    \/ \E k \in DOMAIN checkedOutBooks :
            handleCheckin(checkedOutBooks[k].bookId, checkedOutBooks[k].memberId)
    \/ \E bid \in BookIds : handleDeleteBook(bid)
    \/ \E mid \in MemberIds : handleDeleteMember(mid)
    \/ \E i \in DOMAIN inflight, outcome \in RemoteOutcomes : RemoteRespond(i, outcome)

SpecDelete == InitDelete /\ [][NextDelete]_vars

\* The life of loaded reservations: the desk cancels or issues them, the
\* dashboard extends or cancels the overdue ones, members cancel their own,
\* and days pass.
InitStatus ==
    /\ books = TheBooks
    /\ members = MemberIds
    /\ transactions = <<>>
    /\ \E m \in 1..(MaxInitLog - 1) :
          reservations \in ReservationLists(1, {<<"A001", "0001">>, <<"A002", "0002">>},
                                            {0, MaxDay}, {Active, "Fulfilled"}, m)
    /\ online \in BOOLEAN
    /\ offlineQueue = <<>>
    /\ inflight = <<>>
    /\ sync = Idle
    /\ replayLog = <<>>
    /\ now = 0
    /\ nextId = MaxId - 1
    /\ last = NoLast

NextStatus ==
    \/ \E k \in DOMAIN filteredReservations :
            handleCancelReservation(filteredReservations[k].id)
    \/ \E k \in DOMAIN filteredReservations :
            handleIssueReservedBook(filteredReservations[k].id)
    \/ \E k \in DOMAIN overdueReservations :
            handleCancelOverdueReservation(overdueReservations[k].id)
    \/ \E k \in DOMAIN overdueReservations :
            handleConfirmExtend(overdueReservations[k], now + 2)
    \/ \E mid \in members : \E k \in DOMAIN myReservations(mid) :
            onCancelReservation(myReservations(mid)[k].id)
    \/ \E i \in DOMAIN inflight, outcome \in RemoteOutcomes : RemoteRespond(i, outcome)
    \/ Tick

SpecStatus == InitStatus /\ [][NextStatus]_vars

\* The gap rule between the Active reservations of one member.
GapRule(rs) ==
    \A i, j \in DOMAIN rs :
        /\ i # j
        /\ rs[i].status = Active /\ rs[j].status = Active
        /\ rs[i].memberId = rs[j].memberId
        => Abs(differenceInDays(rs[i].pickupDate, rs[j].pickupDate)) >= minGapDays

\* Every operation that places or moves a pickup date, over loaded
\* reservations of member 0001 that respect both rules; one mutation.
InitGap ==
    /\ books = TheBooks
    /\ members = MemberIds
    /\ transactions = <<>>
    /\ \E m \in 0..MaxInitLog :
          reservations \in ReservationLists(1, BookIds \X {"0001"},
                                            {0, minGapDays, minGapDays + 1},
                                            {Active, "Cancelled"}, m)
    /\ NoDuplicate(reservations)
    /\ GapRule(reservations)
    /\ online \in BOOLEAN
    /\ offlineQueue = <<>>
    /\ inflight = <<>>
    /\ sync = Idle
    /\ replayLog = <<>>
    /\ now = MaxDay
    /\ nextId = MaxId
    /\ last = NoLast

NextGap ==
    \/ \E bid \in BookIds, d \in {now + 1, minGapDays, 2 * minGapDays} :
            handleReserveSubmit(bid, "0001", d)
    \/ \E k \in DOMAIN filteredReservations, d \in {now + 1, minGapDays, 2 * minGapDays} :
            handleConfirmDateChange(filteredReservations[k], d)
    \/ \E k \in DOMAIN overdueReservations, d \in {now, now + 2} :
            handleConfirmExtend(overdueReservations[k], d)
    \/ \E k \in DOMAIN filteredReservations :
            handleCancelReservation(filteredReservations[k].id)
    \/ \E k \in DOMAIN filteredReservations :
            handleIssueReservedBook(filteredReservations[k].id)
    \/ \E i \in DOMAIN inflight, outcome \in RemoteOutcomes : RemoteRespond(i, outcome)

SpecGap == InitGap /\ [][NextGap]_vars

\* The timeline simulator over a snapshot of loans taken on day 0, due on day
\* 10 or without a due date, and of reservations picked up around those dates.
TimelineLoans(n) ==
    {[i \in 1..n |-> Transaction(i, f[i][1], "0001", CheckOut, 0, f[i][2], 0)] :
        f \in [1..n -> BookIds \X {10, NoDue}]}

InitTimeline ==
    /\ books = TheBooks
    /\ members = MemberIds
    /\ \E n \in 0..MaxInitLog : \E m \in 0..(MaxInitLog - n) :
          /\ transactions \in TimelineLoans(n)
          /\ reservations \in ReservationLists(n + 1, BookIds \X MemberIds,
                                               {5, 10, loanPeriodDays},
                                               {Active, "Cancelled"}, m)
          /\ NoDuplicate(reservations)
    /\ online = TRUE
    /\ offlineQueue = <<>>
    /\ inflight = <<>>
    /\ sync = Idle
    /\ replayLog = <<>>
    /\ now = MaxDay
    /\ nextId = MaxId
    /\ last = NoLast

NextTimeline ==
    \/ \E book \in books, late \in SUBSET {transactions[i].id : i \in DOMAIN transactions} :
            handleOpenReservationModal(book, late)
    \/ \E k \in DOMAIN filteredReservations :
            handleOpenEditDate(filteredReservations[k])

SpecTimeline == InitTimeline /\ [][NextTimeline]_vars

Next ==
    \/ NextLedger
    \/ NextRenew
    \/ NextReserve
    \/ NextSync

Spec == Init /\ [][Next]_vars

-----------------------------------------------------------------------------
(* Ledger claims *)

\* The events of one (title, member) pair, as places in the log.
Group(bid, mid) ==
    {i \in DOMAIN transactions :
        transactions[i].bookId = bid /\ transactions[i].memberId = mid}

\* Event i comes before event j in ascending timestamp order (log order on a tie).
Earlier(i, j) ==
    \/ transactions[i].date < transactions[j].date
    \/ transactions[i].date = transactions[j].date /\ i < j

CountOf(S, type) == Cardinality({i \in S : transactions[i].type = type})

Net(bid, mid) == CountOf(Group(bid, mid), CheckOut) - CountOf(Group(bid, mid), CheckIn)

\* The largest number by which CheckIns outnumber CheckOuts in a prefix of the
\* pair's events in timestamp order: the CheckIns that found nothing open.
Orphans(bid, mid) ==
    LET excess(i) ==
            LET upTo == {j \in Group(bid, mid) : j = i \/ Earlier(j, i)}
            IN  CountOf(upTo, CheckIn) - CountOf(upTo, CheckOut)
        all == {0} \cup {excess(i) : i \in Group(bid, mid)}
    IN  CHOOSE x \in all : \A y \in all : y <= x

OpenIn(out, bid, mid) ==
    Cardinality({k \in DOMAIN out : out[k].bookId = bid /\ out[k].memberId = mid})

\* C1 (as claimed): for every (member, title) pair the reconstructed number of
\* active loans is max(0, checkouts - checkins), whatever the order of events.
C1_ActiveCountIsNet ==
    \A bid \in BookIds, mid \in MemberIds :
        OpenIn(checkedOutBooks, bid, mid) = Max(0, Net(bid, mid))

\* C1 (amended): a CheckIn that finds no open loan of its pair is ignored, so
\* the number of active loans is checkouts - checkins plus the number of such
\* CheckIns; it is max(0, checkouts - checkins) when there is none.
C1_ActiveCountIsClampedNet ==
    LET cb == checkedOutBooks
        ob == activeLoansTransactions
    IN  \A bid \in BookIds :
            LET rb == activeCheckouts(bid)
            IN  \A mid \in MemberIds :
                    LET open == Net(bid, mid) + Orphans(bid, mid)
                    IN  /\ OpenIn(cb, bid, mid) = open
                        /\ OpenIn(ob, bid, mid) = open
                        /\ OpenIn(rb, bid, mid) = open
                        /\ Orphans(bid, mid) = 0 => open = Max(0, Net(bid, mid))

C1_Witness ==
    \E bid \in BookIds, mid \in MemberIds :
        /\ CountOf(Group(bid, mid), CheckOut) >= 2
        /\ CountOf(Group(bid, mid), CheckIn) >= 1
        /\ Orphans(bid, mid) = 0
        /\ OpenIn(checkedOutBooks, bid, mid) = 1

\* Every loan in out is a CheckOut of the log, and every CheckOut of its pair
\* later in timestamp order is in out as well.
NewestOpen(out) ==
    LET open == Range(out)
    IN  \A i \in DOMAIN transactions :
            transactions[i] \in open =>
                /\ transactions[i].type = CheckOut
                /\ \A j \in Group(transactions[i].bookId, transactions[i].memberId) :
                        transactions[j].type = CheckOut /\ Earlier(i, j)
                            => transactions[j] \in open

\* C2: in each (member, title) group the loans left open are the most recent
\* CheckOuts: a CheckOut later in timestamp order than an open one is open too.
C2_OpenLoansAreNewest ==
    /\ Range(checkedOutBooks) \subseteq Range(transactions)
    /\ NewestOpen(checkedOutBooks)
    /\ NewestOpen(activeLoansTransactions)
    /\ \A bid \in BookIds : NewestOpen(activeCheckouts(bid))

C2_Witness ==
    \E i, j, c \in DOMAIN transactions :
        /\ i \in Group(transactions[j].bookId, transactions[j].memberId)
        /\ c \in Group(transactions[j].bookId, transactions[j].memberId)
        /\ transactions[i].type = CheckOut
        /\ transactions[j].type = CheckOut
        /\ transactions[c].type = CheckIn
        /\ Earlier(i, j) /\ Earlier(j, c)
        /\ transactions[j] \in Range(checkedOutBooks)
        /\ transactions[i] \notin Range(checkedOutBooks)

-----------------------------------------------------------------------------
(* Availability claims *)

\* C3: for every title, onShelf = totalCopies - max(0, checkouts - checkins);
\* the status is Unavailable exactly when onShelf <= 0, otherwise Reserved
\* exactly when onShelf <= the number of Active reservations of the title,
\* otherwise OnShelf; one copy, no checkout and one Active reservation reads
\* Reserved.
C3_AvailabilityFormula ==
    \A book \in books :
        LET co == Cardinality({i \in DOMAIN transactions :
                    transactions[i].bookId = book.id /\ transactions[i].type = CheckOut})
            ci == Cardinality({i \in DOMAIN transactions :
                    transactions[i].bookId = book.id /\ transactions[i].type = CheckIn})
            onShelf == book.totalCopies - (IF co - ci > 0 THEN co - ci ELSE 0)
            act == Cardinality({i \in DOMAIN reservations :
                    reservations[i].bookId = book.id /\ reservations[i].status = Active})
            rows == {a \in booksWithAvailability : a.id = book.id}
        IN  /\ Cardinality(rows) = 1
            /\ \A a \in rows :
                /\ a.availableCopies = onShelf
                /\ a.status = "Unavailable" <=> onShelf <= 0
                /\ onShelf > 0 => (a.status = "Reserved" <=> onShelf <= act)
                /\ onShelf > 0 /\ onShelf > act => a.status = "OnShelf"
                /\ book.totalCopies = 1 /\ co = 0 /\ act = 1 => a.status = "Reserved"

C3_Witness ==
    /\ \E a \in booksWithAvailability :
        /\ a.totalCopies = 1
        /\ a.status = "Reserved"
        /\ checkoutCounts(a.id) = 0
        /\ Len(activeReservationsByBook(a.id)) = 1
    /\ \E a \in booksWithAvailability :
        /\ a.status = "OnShelf"
        /\ checkinCounts(a.id) > checkoutCounts(a.id)

-----------------------------------------------------------------------------
(* Renewal claims *)

\* The current due date of a loan as the Renewal Capper is specified: the
\* explicit dueDate, else the checkout date plus the loan period.
CurrentDue(loan) ==
    IF loan.dueDate # NoDue THEN loan.dueDate ELSE loan.date + loanPeriodDays

\* The Active reservations of the loan's title picked up before
\* currentDue + loanPeriodDays.
ConflictsOf(loan) ==
    {i \in DOMAIN reservations :
        /\ reservations[i].bookId = loan.bookId
        /\ reservations[i].status = Active
        /\ reservations[i].pickupDate < CurrentDue(loan) + loanPeriodDays}

EarliestPickup(loan) ==
    CHOOSE d \in {reservations[i].pickupDate : i \in ConflictsOf(loan)} :
        \A i \in ConflictsOf(loan) : d <= reservations[i].pickupDate

\* totalCopies - (checkoutCount - checkinCount) of the loan's title.
OnShelfOf(loan) ==
    LET book == CHOOSE b \in books : b.id = loan.bookId
        of(type) == Cardinality({i \in DOMAIN transactions :
                        transactions[i].bookId = loan.bookId
                        /\ transactions[i].type = type})
    IN  book.totalCopies - (of(CheckOut) - of(CheckIn))

\* The step is a renewal of the loan that was accepted with the new due date.
RenewedTo(loan, due) ==
    /\ last'.op = "handleRenewLoan"
    /\ last'.outcome = "success"
    /\ Len(last'.mutation) = 1
    /\ last'.mutation[1].data = [id |-> loan.id, dueDate |-> due,
                                 renewalCount |-> loan.renewalCount + 1]
    /\ ~online => \E i \in DOMAIN transactions' :
                    /\ transactions'[i].id = loan.id
                    /\ transactions'[i].dueDate = due

\* C4: a renewal of a loan (here: one with an explicit due date) whose title
\* has no conflicting reservation is accepted, and the new due date is the old
\* due date plus loanPeriodDays.
C4_FullExtension ==
    [][\A k \in DOMAIN transactions :
            LET loan == transactions[k]
            IN  /\ loan.dueDate # NoDue
                /\ handleRenewLoan(loan.id)
                /\ ConflictsOf(loan) = {}
                => RenewedTo(loan, loan.dueDate + loanPeriodDays)]_vars

\* C5: when the conflicting reservations outnumber currentOnShelf and the day
\* before the earliest conflicting pickup is strictly after the current due
\* date, the renewal is accepted and the new due date is that day.
C5_CappedRenewal ==
    [][\A k \in DOMAIN transactions :
            LET loan == transactions[k]
            IN  /\ handleRenewLoan(loan.id)
                /\ Cardinality(ConflictsOf(loan)) > OnShelfOf(loan)
                /\ ConflictsOf(loan) # {}
                /\ EarliestPickup(loan) - 1 > CurrentDue(loan)
                => RenewedTo(loan, EarliestPickup(loan) - 1)]_vars

\* C6: when the capped date is not strictly after the current due date, the
\* renewal is rejected as blocked by a reservation, no mutation is issued or
\* queued, and the loan keeps its dueDate and renewalCount.
C6_BlockedRenewal ==
    [][\A k \in DOMAIN transactions :
            LET loan == transactions[k]
            IN  /\ handleRenewLoan(loan.id)
                /\ Cardinality(ConflictsOf(loan)) > OnShelfOf(loan)
                /\ ConflictsOf(loan) # {}
                /\ EarliestPickup(loan) - 1 <= CurrentDue(loan)
                => /\ last'.outcome = "failure"
                   /\ last'.message = "Blocked by Reservation"
                   /\ last'.mutation = <<>>
                   /\ UNCHANGED <<transactions, offlineQueue, inflight>>]_vars

\* ---------------------------------------------------------------------
\* Reservation conflict validator
\* ---------------------------------------------------------------------

\* The member holds an Active reservation, other than the one with id except,
\* whose pickup date is fewer than 15 whole days from day d.
GapConflict(mid, d, except) ==
    \E i \in DOMAIN reservations :
        /\ reservations[i].id # except
        /\ reservations[i].memberId = mid
        /\ reservations[i].status = Active
        /\ reservations[i].pickupDate - d < 15
        /\ d - reservations[i].pickupDate < 15

\* The member holds an Active reservation for the title.
HoldsTitle(mid, bid) ==
    \E i \in DOMAIN reservations :
        /\ reservations[i].memberId = mid
        /\ reservations[i].bookId = bid
        /\ reservations[i].status = Active

\* The step's handler returned without issuing a mutation / issued one.
Refused ==
    /\ last'.outcome = "rejected"
    /\ last'.mutation = <<>>
    /\ UNCHANGED <<reservations, offlineQueue, inflight>>

Issued ==
    /\ Len(last'.mutation) = 1
    /\ IF online THEN inflight' = Append(inflight, last'.mutation[1])
                 ELSE Len(offlineQueue') = Len(offlineQueue) + 1

\* The step is handleReserveSubmit / handleConfirmDateChange with these inputs.
ReserveSubmitted(bid, mid, d) ==
    /\ last'.op \in {"handleReserveSubmit", "handleReserveBook"}
    /\ handleReserveSubmit(bid, mid, d)

DateChangeConfirmed(res, d) ==
    /\ last'.op \in {"handleConfirmDateChange", "handleUpdateReservationDate"}
    /\ handleConfirmDateChange(res, d)

\* C7 as stated: a new or edited reservation is rejected, with no mutation
\* issued, exactly when the same member holds another Active reservation fewer
\* than 15 whole days from the candidate date.
C7_RejectedExactlyOnGap ==
    [][/\ \A bid \in BookIds, mid \in members,
             d \in ReservePickups :
            ReserveSubmitted(bid, mid, d)
            => /\ Refused <=> GapConflict(mid, d, 0)
               /\ Refused \/ Issued
       /\ \A k \in DOMAIN reservations, d \in ReservePickups :
            DateChangeConfirmed(reservations[k], d)
            => /\ Refused <=> GapConflict(reservations[k].memberId, d,
                                          reservations[k].id)
               /\ Refused \/ Issued]_vars

\* C7 amended: a pickup-date edit is rejected, with no mutation issued, exactly
\* when the member holds another Active reservation fewer than 15 whole days
\* from the candidate date; a new reservation is rejected, with no mutation
\* issued, exactly when the member is unknown, or already holds an Active
\* reservation for the title, or holds an Active reservation fewer than 15
\* whole days from the candidate date.  15 days apart is accepted, 14 rejected.
C7_RejectedOnGapOrDuplicate ==
    [][/\ \A bid \in BookIds, mid \in MemberIds \cup {UnknownMember},
             d \in ReservePickups :
            ReserveSubmitted(bid, mid, d)
            => /\ Refused <=> \/ mid \notin members
                              \/ HoldsTitle(mid, bid)
                              \/ GapConflict(mid, d, 0)
               /\ Refused \/ Issued
       /\ \A k \in DOMAIN reservations, d \in ReservePickups :
            DateChangeConfirmed(reservations[k], d)
            => /\ Refused <=> GapConflict(reservations[k].memberId, d,
                                          reservations[k].id)
               /\ Refused \/ Issued]_vars

\* A reservation was accepted although the member holds another Active
\* reservation exactly 15 days away.
C7_Witness ==
    /\ last.op = "handleReserveBook"
    /\ last.outcome = "success"
    /\ \E i \in DOMAIN reservations :
          /\ reservations[i].id # last.subject
          /\ reservations[i].memberId = last.mutation[1].data.memberId
          /\ reservations[i].status = Active
          /\ Abs(reservations[i].pickupDate - last.mutation[1].data.pickupDate)
                = 15

\* C8: no member holds two Active reservations for the same title, whatever
\* reserve, cancel, fulfil and edit operations came before.
C8_NoDuplicateActive == NoDuplicate(reservations)

-----------------------------------------------------------------------------
(* Offline write queue claims *)

\* The step ends a sync pass.
PassEnds == sync.pc = "replay" /\ sync'.pc = "idle"

\* What the pass that ends with this step replayed, in order.
PassLog == SubSeq(replayLog', Len(replayLog') - sync.total + 1, Len(replayLog'))

\* The items of a log whose remote operation ended in an error, returned or
\* thrown, in order.
FailedOf(log) ==
    LET failed == SelectSeq(log, LAMBDA e : e.outcome # "ok")
    IN  [k \in DOMAIN failed |-> failed[k].item]

\* C9: a pass in which some items fail leaves exactly the failed items in the
\* queue, in order, and returns false; a pass in which none fails clears the
\* queue and returns true; an item replayed successfully is never replayed
\* again.
C9_QueueKeepsExactlyFailedItems ==
    [][/\ PassEnds =>
            /\ last'.op = "syncOfflineData"
            /\ IF Len(FailedOf(PassLog)) > 0
               THEN offlineQueue' = FailedOf(PassLog) /\ last'.outcome = "false"
               ELSE offlineQueue' = <<>> /\ last'.outcome = "true"
       /\ \A p, q \in DOMAIN replayLog' :
            p < q /\ replayLog'[p].outcome = "ok"
            => replayLog'[q].item # replayLog'[p].item]_vars

\* C10: an item whose remote operation returns an error value is put in
\* failedItems and is in the queue the pass leaves.
C10_ErrorValueItemIsRetained ==
    [][syncOfflineData("error") =>
            LET item == sync.queue[sync.i]
            IN  IF PassEnds
                THEN \E k \in DOMAIN offlineQueue' : offlineQueue'[k] = item
                ELSE \E k \in DOMAIN sync'.failedItems : sync'.failedItems[k] = item]_vars

\* C11: a sync pass attempts the items of its queue snapshot one at a time,
\* each exactly once and in enqueue order, whatever the outcome of the items
\* before: every settled operation is that of the item at the pass's position,
\* and the pass ends only after the last item, having attempted the snapshot.
C11_EveryItemOnceInOrder ==
    [][/\ sync.pc = "replay" /\ replayLog' # replayLog =>
            /\ Len(replayLog') = Len(replayLog) + 1
            /\ replayLog'[Len(replayLog')].item = sync.queue[sync.i]
            /\ sync'.pc = "replay" =>
                    sync'.i = sync.i + 1 /\ sync'.queue = sync.queue
       /\ PassEnds =>
            /\ sync.i = sync.total
            /\ Len(replayLog') >= sync.total
            /\ [k \in 1..sync.total |-> PassLog[k].item] = sync.queue]_vars

\* A pass over two items has ended whose first item threw and whose second
\* item was attempted all the same.
C11_Witness ==
    /\ sync.pc = "idle"
    /\ last.op = "syncOfflineData"
    /\ Len(replayLog) = 2
    /\ replayLog[1].outcome = "thrown"
    /\ replayLog[2].item # replayLog[1].item

\* C12: an item appended to the queue while a pass is running does not change
\* the pass's total, and is in the queue the pass leaves when it ends.
C12_EnqueuedDuringPassIsKept ==
    [][/\ sync.pc = "replay" /\ Len(offlineQueue') > Len(offlineQueue) =>
            sync'.pc = "replay" /\ sync'.total = sync.total
       /\ PassEnds =>
            \A k \in (sync.total + 1)..Len(offlineQueue) :
                \E j \in DOMAIN offlineQueue' : offlineQueue'[j] = offlineQueue[k]]_vars

-----------------------------------------------------------------------------
(* Timeline simulator claims *)

\* The copy-free days of a title: the due day of every open loan, and the
\* epoch for every copy on the shelf.
CopyFreeDays(book) ==
    LET open == activeCheckouts(book.id)
    IN  [i \in 1..Len(open) |-> CurrentDue(open[i])]
        \o [i \in 1..Max(0, book.totalCopies - Len(open)) |-> epoch]

\* From reservation k on, each reservation takes the earliest copy that is
\* free on or before its pickup day and keeps it for loanPeriodDays.
RECURSIVE TakeCopies(_, _, _)
TakeCopies(free, rs, k) ==
    IF k > Len(rs) THEN free
    ELSE LET can == {i \in DOMAIN free : free[i] <= rs[k].pickupDate}
         IN  IF can = {} THEN TakeCopies(free, rs, k + 1)
             ELSE LET i == CHOOSE j \in can : \A l \in can : free[j] <= free[l]
                  IN  TakeCopies([free EXCEPT ![i] = rs[k].pickupDate + loanPeriodDays],
                                 rs, k + 1)

RemainingFreeDays(book) ==
    Range(TakeCopies(CopyFreeDays(book), bookReservations(book.id), 1))

\* C13: the earliest pickup date proposed for a new reservation of a title is
\* max(earliest remaining copy-free day, tomorrow), the copy-free days being
\* taken by the Active reservations in ascending pickupDate order; it is never
\* before tomorrow.
C13_EarliestPickupDate ==
    [][\A book \in books,
          late \in SUBSET {transactions[i].id : i \in DOMAIN transactions} :
            handleOpenReservationModal(book, late) =>
                /\ last'.subject >= now + 1
                /\ \E d \in RemainingFreeDays(book) :
                      /\ \A e \in RemainingFreeDays(book) : d <= e
                      /\ last'.subject = Max(d, now + 1)]_vars

\* The reservation stored at q comes before the one stored at k among the
\* Active reservations of k's title by pickupDate, ties in stored order.
ComesBefore(q, k) ==
    /\ reservations[q].status = Active
    /\ reservations[q].bookId = reservations[k].bookId
    /\ \/ reservations[q].pickupDate < reservations[k].pickupDate
       \/ reservations[q].pickupDate = reservations[k].pickupDate /\ q < k

\* The position, from 1, of the Active reservation stored at k.
PositionOf(k) == 1 + Cardinality({q \in DOMAIN reservations : ComesBefore(q, k)})

\* The Active reservations of k's title that sit totalCopies places after k.
BlockingOf(k) ==
    {q \in DOMAIN reservations :
        /\ reservations[q].status = Active
        /\ reservations[q].bookId = reservations[k].bookId
        /\ \E b \in books : /\ b.id = reservations[k].bookId
                            /\ PositionOf(q) = PositionOf(k) + b.totalCopies}

\* C14: when the edit form opens for an Active reservation at position i of
\* its title's Active reservations in ascending pickupDate order, the latest
\* allowed pickup date is the pickupDate of the reservation at position
\* i + totalCopies minus loanPeriodDays when that position exists, and
\* today + 90 days otherwise.
C14_LatestPickupDate ==
    [][\A k \in DOMAIN reservations :
            reservations[k].status = Active /\ handleOpenEditDate(reservations[k]) =>
                IF BlockingOf(k) # {}
                THEN \A q \in BlockingOf(k) :
                        last'.subject = reservations[q].pickupDate - loanPeriodDays
                ELSE last'.subject = now + maxHorizonDays]_vars

\* The form was opened for the first of two reservations of a one-copy title,
\* and then the latest date is bounded by the second.
C14_Witness ==
    /\ last.op = "handleOpenEditDate" /\ last.outcome = "limit"
    /\ last.subject = 0
    /\ \E k, q \in DOMAIN reservations :
          /\ q \in BlockingOf(k)
          /\ reservations[k].bookId = "A001"
          /\ reservations[q].pickupDate = loanPeriodDays

\* The form was opened for a reservation with no reservation totalCopies
\* places after it: the horizon applies.
C14_WitnessHorizon ==
    /\ last.op = "handleOpenEditDate" /\ last.outcome = "horizon"
    /\ last.subject = now + maxHorizonDays
    /\ \E k \in DOMAIN reservations :
          /\ reservations[k].status = Active /\ reservations[k].bookId = "A002"
          /\ PositionOf(k) = 1 /\ BlockingOf(k) = {}
          /\ \E q \in DOMAIN reservations : ComesBefore(k, q)

\* C15: when the persisted queue content is unreadable, an offline mutation
\* leaves a queue holding only the new item, and a sync returns true having
\* replayed nothing, both without a fault.
C15_CorruptQueueIsEmpty ==
    [][/\ getQueueThrows /\ ~online /\ handleCheckout("A002", "0002", loanPeriodDays) =>
            /\ Len(offlineQueue') = 1
            /\ offlineQueue'[1] = [table |-> "transactions", action |-> "INSERT",
                                   data |-> last'.mutation[1].data]
       /\ getQueueThrows /\ handleSync =>
            /\ last' = Returned("syncOfflineData", "true", "", 0, <<>>)
            /\ sync' = Idle
            /\ replayLog' = replayLog]_vars

-----------------------------------------------------------------------------
(* Online failures *)

RemoteFailures == RemoteOutcomes \ {"ok"}

\* C16: when the remote operation of a mutation attempted online fails, the
\* mutation is dropped: the offline queue is not extended, the success
\* callback does not run, and transactions, reservations, books and members
\* are left as they were.
C16_FailedMutationIsAbandoned ==
    [][\A i \in DOMAIN inflight, outcome \in RemoteFailures :
            RemoteRespond(i, outcome) =>
                /\ offlineQueue' = offlineQueue
                /\ <<transactions, reservations, books, members>>' =
                      <<transactions, reservations, books, members>>
                /\ inflight' = RemoveAt(inflight, i)]_vars

\* A checkout was issued online and its insert failed: the loan is in neither
\* the ledger nor the queue, and nothing is pending.
C16_Witness ==
    /\ last.op = "handleCheckout" /\ last.outcome = "success"
    /\ online /\ inflight = <<>> /\ nextId = MaxId
    /\ \A k \in DOMAIN transactions : transactions[k].id # last.subject
    /\ \A k \in DOMAIN offlineQueue : offlineQueue[k].data.id # last.subject

\* C17: when the remote operation of a mutation attempted online fails, the
\* action that issued it reports the failure: the result its caller holds is
\* not a success result, the operation not having been applied.
C17_FailureIsReported ==
    [][\A i \in DOMAIN inflight, outcome \in RemoteFailures :
            RemoteRespond(i, outcome) /\ last.mutation = <<inflight[i]>> =>
                last'.outcome # "success"]_vars

-----------------------------------------------------------------------------
(* Submissions in progress *)

\* Two mutations come from identical submissions: the same operation on the
\* same record, or inserts that differ only in the generated id.
SameSubmission(m1, m2) ==
    /\ m1.table = m2.table
    /\ m1.action = m2.action
    /\ IF m1.action = "INSERT"
       THEN [m1.data EXCEPT !.id = 0] = [m2.data EXCEPT !.id = 0]
       ELSE m1.data = m2.data

\* C18: while the remote round trip of a submission is unresolved, no
\* identical submission is issued, so one user action never yields two ledger
\* entries or two reservations.
C18_NoSecondSubmissionInFlight ==
    [][Len(inflight') > Len(inflight) =>
            \A i \in DOMAIN inflight :
                ~SameSubmission(inflight[i], inflight'[Len(inflight')])]_vars

-----------------------------------------------------------------------------
(* Catalogue removal *)

\* C19: removing a title whose net checked-out count is positive is rejected
\* and issues no mutation, and so no open loan, as reconstructed from the
\* log, ever refers to a title that has been removed.
C19_NoOpenLoanOfRemovedTitle ==
    [][/\ \A bid \in BookIds :
            handleDeleteBook(bid) /\ netCheckedOut(bid) > 0 =>
                /\ last'.outcome = "rejected" /\ last'.mutation = <<>>
                /\ inflight' = inflight /\ offlineQueue' = offlineQueue
       /\ \A k \in DOMAIN checkedOutBooks' :
            \E b \in books' : b.id = checkedOutBooks'[k].bookId]_vars

\* C20: removing a member who holds an open loan, as reconstructed from the
\* log, is rejected and issues no mutation, whatever the order of the log's
\* CheckIn and CheckOut rows.
C20_MemberWithOpenLoanIsKept ==
    [][\A mid \in MemberIds :
            /\ handleDeleteMember(mid)
            /\ \E k \in DOMAIN checkedOutBooks : checkedOutBooks[k].memberId = mid
            => /\ last'.outcome = "rejected" /\ last'.mutation = <<>>
               /\ inflight' = inflight /\ offlineQueue' = offlineQueue]_vars

-----------------------------------------------------------------------------
(* Reservation life cycle *)

Terminal == {"Fulfilled", "Cancelled", "Cancelled (Overdue)", "Cancelled (Member)"}

\* C21: a reservation ends in exactly one terminal status: once its status is
\* Fulfilled or a Cancelled variant no operation changes it again, and the
\* passing of days changes no status, so an Active reservation past its
\* pickup date stays Active until it is extended or cancelled.
C21_TerminalStatusIsFinal ==
    [][/\ DOMAIN reservations' = DOMAIN reservations
       /\ \A i \in DOMAIN reservations :
            reservations[i].status \in Terminal =>
                reservations'[i].status = reservations[i].status
       /\ now' # now => reservations' = reservations]_vars

\* C22: in a pass over a snapshot of length total the progress callback is
\* called once after every replayed item, failed or not, with processed
\* counts 1, 2, ..., total in that order and the same total on every call.
C22_ProgressAfterEveryItem ==
    [][/\ sync.pc = "replay" /\ replayLog' # replayLog =>
            /\ Len(replayLog') = Len(replayLog) + 1
            /\ replayLog'[Len(replayLog')].progress.total = Len(sync.queue)
       /\ PassEnds =>
            \A k \in 1..Len(sync.queue) :
                PassLog[k].progress = [processed |-> k, total |-> Len(sync.queue)]]_vars

\* A pass over two items, the first of which threw, has ended: two reports
\* were made, the last with processed = total = 2.
C22_Witness ==
    /\ sync.pc = "idle" /\ last.op = "syncOfflineData" /\ last.outcome = "false"
    /\ Len(replayLog) = 2
    /\ replayLog[1].outcome = "thrown"
    /\ replayLog[1].progress = [processed |-> 1, total |-> 2]
    /\ replayLog[2].progress = [processed |-> 2, total |-> 2]

-----------------------------------------------------------------------------
(* Renewal effects *)

\* The row of the log with the given id.
RowOf(log, id) == log[CHOOSE k \in DOMAIN log : log[k].id = id]

\* The effect an accepted renewal of the loan with the given id must have on
\* the log: that row's renewalCount goes up by one, its dueDate may change,
\* and nothing else does.
RenewedOnly(id) ==
    /\ DOMAIN transactions' = DOMAIN transactions
    /\ \A k \in DOMAIN transactions :
          IF transactions[k].id = id
          THEN transactions'[k] =
                   [transactions[k] EXCEPT !.dueDate = transactions'[k].dueDate,
                                           !.renewalCount = transactions[k].renewalCount + 1]
          ELSE transactions'[k] = transactions[k]

\* C23: every accepted renewal raises the loan's renewalCount by exactly one
\* and changes only that loan's dueDate and renewalCount, whether it is
\* applied at once (offline) or when the remote update resolves (online), and
\* whatever the loan's renewalCount is compared with maxRenewals.
C23_RenewalIncrementsByOne ==
    [][/\ \A i \in DOMAIN inflight :
            inflight[i].cb.kind = "renew" /\ RemoteRespond(i, "ok") =>
                RenewedOnly(inflight[i].data.id)
       /\ \A k \in DOMAIN transactions :
            /\ ~online /\ handleRenewLoan(transactions[k].id)
            /\ last'.outcome = "success"
            => RenewedOnly(transactions[k].id)
       /\ \A k \in DOMAIN transactions :
            /\ handleRenewLoan(transactions[k].id)
            /\ transactions[k].renewalCount >= maxRenewals
            => last'.outcome =
                  renewalDecision([transactions[k] EXCEPT !.renewalCount = 0]).outcome]_vars

\* C24: for a loan stored without a dueDate the renewal starts from the
\* derived due date, checkout date + loanPeriodDays, so that without any
\* reservation of the title the renewed due date is checkout date +
\* 2 * loanPeriodDays.
C24_RenewalFromDerivedDueDate ==
    [][\A k \in DOMAIN transactions :
            /\ transactions[k].dueDate = NoDue
            /\ handleRenewLoan(transactions[k].id)
            /\ \A i \in DOMAIN reservations :
                    reservations[i].bookId # transactions[k].bookId
            => /\ last'.outcome = "success"
               /\ last'.mutation[1].data.dueDate =
                      transactions[k].date + 2 * loanPeriodDays]_vars

-----------------------------------------------------------------------------
(* Agreement of the reconstructors *)

\* C25: for every log the check-in screen, the overdue list, the timeline
\* simulator and the member dashboard reconstruct the same open loans, each
\* closing the oldest open loan of a member and title first.
C25_ReconstructorsAgree ==
    /\ Range(activeLoansTransactions) = Range(checkedOutBooks)
    /\ \A bid \in BookIds :
          Range(activeCheckouts(bid)) = {t \in Range(checkedOutBooks) : t.bookId = bid}
    /\ \A mid \in MemberIds :
          Range(myActiveLoans(mid)) = {t \in Range(checkedOutBooks) : t.memberId = mid}

\* C26: whatever reserve, edit, extend, cancel and fulfil operations are
\* made, two Active reservations of one member have pickup dates at least
\* 15 whole days apart.
C26_GapRuleIsKept == GapRule(reservations)

\* C27: for every title and every log, the checked-out count behind the
\* availability figure, max(0, CheckOut rows - CheckIn rows) of the title,
\* is the number of the title's open loans in the reconstructed ledger, so the
\* availability shown is the number of on-shelf copies the timeline
\* simulator starts from.
C27_AvailabilityMatchesLedger ==
    \A book \in books :
        /\ Max(0, checkoutCounts(book.id) - checkinCounts(book.id)) =
              Cardinality({k \in DOMAIN checkedOutBooks :
                              checkedOutBooks[k].bookId = book.id})
        /\ availableCopies(book) = book.totalCopies - Len(activeCheckouts(book.id))

\* C28: every accepted renewal moves the loan's due date strictly later than
\* it was, and never later than the old due date plus loanPeriodDays.
C28_RenewalMovesDueDateLater ==
    [][\A k \in DOMAIN transactions :
            /\ handleRenewLoan(transactions[k].id)
            /\ last'.outcome = "success"
            => /\ last'.mutation[1].data.dueDate > CurrentDue(transactions[k])
               /\ last'.mutation[1].data.dueDate <=
                     CurrentDue(transactions[k]) + loanPeriodDays]_vars

-----------------------------------------------------------------------------
(* Bounds on pickup dates *)

\* C29: the latest pickup date computed when the edit form opens for an
\* Active reservation is never before the reservation's current pickupDate
\* nor before tomorrow, the minimum of the form's date field.
C29_LatestDateNotBeforeCurrent ==
    [][\A k \in DOMAIN filteredReservations :
            handleOpenEditDate(filteredReservations[k]) =>
                /\ last'.subject >= filteredReservations[k].pickupDate
                /\ last'.subject >= now + 1]_vars

\* C30: a new reservation that is accepted has a pickupDate not before the
\* earliest pickup date computed for its title from the snapshot, and an
\* accepted edit a pickupDate not after the latest allowed date computed for
\* the reservation.
C30_HandlersEnforceDateBounds ==
    [][/\ \A book \in books, mid \in members, d \in ReservePickups :
            handleReserveSubmit(book.id, mid, d) /\ last'.mutation # <<>> =>
                d >= format(calculateEarliestAvailableDate(book, {}))
       /\ \A k \in DOMAIN filteredReservations, d \in ReservePickups :
            /\ handleConfirmDateChange(filteredReservations[k], d)
            /\ last'.mutation # <<>>
            => d <= calculateMaxPickupDate(filteredReservations[k]).date]_vars

====
